---- MODULE Spec2Model ----
(***************************************************************************)
(* Model of the real-time capture-and-reconciliation pipeline:             *)
(*   frontend/public/audio-processor.js  (AudioCaptureProcessor)           *)
(*   frontend/app/page.tsx               (Home: recording, WebSocket,      *)
(*                                        transcript, metrics, sessions,   *)
(*                                        model switch)                    *)
(*   frontend/components/ComparisonView.tsx (stored sessions, selection,   *)
(*                                        averages)                        *)
(*                                                                         *)
(* The specifications share the variables:                                 *)
(*   Spec        - the whole system;                                       *)
(*   SpecEvents  - the page receiving inbound messages: start/stop of a    *)
(*                 recording, the WebSocket callbacks, reset;              *)
(*   SpecStream  - the page forwarding the frames of the worklet port;     *)
(*   SpecEncoder - the audio worklet processor fed with input blocks;      *)
(*   SpecControl - start/stop of a recording and the model switch;         *)
(*   SpecCompare - the comparison view over a list of stored sessions;     *)
(*   SpecSessions - recordings saved at stop and loaded by the view.       *)
(***************************************************************************)
EXTENDS Integers, Sequences, FiniteSets, TLC

VARIABLES
  \* ---- page.tsx: React state (lines 31-36)
  isRecording, transcript, currentModel, metrics, status,
  \* ---- page.tsx: refs (lines 38-43)
  wsRef, audioContextRef, workletNodeRef, streamRef, sessionStartRef,
  metricsHistoryRef,
  \* ---- localStorage['transcription_sessions'], as the parsed list
  storage,
  \* ---- objects created by the k-th startRecording call (k = 1..MaxStarts)
  startPc,   \* position of the k-th (async) startRecording call
  conn,      \* readyState of the WebSocket the k-th call created
  ctx,       \* state of the AudioContext the k-th call created
  node,      \* state of the AudioWorkletNode the k-th call created
  stream,    \* state of the MediaStream tracks the k-th call acquired
  sent,      \* messages sent on the k-th WebSocket, in send order
  now,       \* Date.now()
  \* ---- history variables (not read by any action's code)
  lastOp,    \* the handler that ran last, with its input
  handed,    \* frames handed to port.onmessage, with wsRef/readyState then
  recv,      \* metrics samples received since the history was last emptied
  nMsgs,     \* number of inbound messages delivered so far
  \* ---- page.tsx: the requests switchModel sent to POST /api/model
  switchReqs,
  \* ---- page.tsx: showComparison (line 36); ComparisonView.tsx: the state
  \* of the mounted component (lines 23-24)
  showComparison, sessions, selectedSessions,
  \* ---- audio-processor.js: AudioCaptureProcessor fields (lines 5-7)
  buffer, bufferIndex,
  posted,    \* frames posted on the worklet port, in post order
  captured   \* history: every input sample process() has consumed

pageVars == <<isRecording, transcript, currentModel, metrics, status,
              wsRef, audioContextRef, workletNodeRef, streamRef,
              sessionStartRef, metricsHistoryRef, storage,
              startPc, conn, ctx, node, stream, sent, now,
              lastOp, handed, recv, nMsgs>>
encVars  == <<buffer, bufferIndex, posted, captured>>
cvVars   == <<showComparison, sessions, selectedSessions>>
vars     == <<pageVars, encVars, switchReqs, cvVars>>

(***************************************************************************)
(* Bounds of the model                                                     *)
(***************************************************************************)
MaxStarts  == 2   \* startRecording calls in one behaviour
MaxMessages == 3  \* inbound messages delivered in one behaviour
MaxFrames  == 2   \* frames handed to the page by the worklets
MaxResets  == 1   \* reset control messages sent on one connection
\* frame length of the worklet; the program uses 4096
\* (audio-processor.js:5), the model a scaled-down frame
bufferSize == 2
MaxBlock   == 4   \* longest input block of one process() call
MaxTotal   == 5   \* samples consumed in one behaviour of SpecEncoder

Starts == 1..MaxStarts

(***************************************************************************)
(* Inbound messages (event.data after JSON.parse)                          *)
(***************************************************************************)
Models == {"vosk", "whisper"}
\* data.metrics, a Metrics object (page.tsx:14-20); rtf in tenths
Sample1 ==
  [cpu_percent |-> 10, memory_mb |-> 100, avg_chunk_time_ms |-> 20, rtf |-> 4]
Sample2 ==
  [cpu_percent |-> 30, memory_mb |-> 200, avg_chunk_time_ms |-> 50, rtf |-> 6]
Samples == {Sample1, Sample2}

\* an optional value is a sequence of length 0 or 1
Msg(type, text, model, message, m) ==
  [type |-> type, text |-> text, model |-> model, message |-> message,
   metrics |-> m]
NoData == Msg("", "", "", "", <<>>)

\* The inbound messages the backend sends in the model.  A text of "" stands
\* for an empty or a missing data.text (both falsy); "ping" is a type the
\* client does not know; "#malformed" is a payload on which JSON.parse (or
\* the read of data.type) throws.
Messages ==
       {Msg("connected", "", "whisper", "", <<>>)}
  \cup {Msg("partial", tx, "", "", <<>>) : tx \in {"he", "hello"}}
  \cup {Msg("final", "hello world", "", "", <<>>)}
  \cup {Msg("final", "he", "", "", <<Sample1>>)}
  \cup {Msg("partial", "", "", "", <<Sample2>>)}
  \cup {Msg("final", "", "", "", <<>>)}
  \cup {Msg("model_switched", "", "whisper", "", <<>>)}
  \cup {Msg("error", "", "", "boom", <<>>)}
  \cup {Msg("ping", "", "", "", <<>>)}
  \cup {Msg("#malformed", "", "", "", <<>>)}

(***************************************************************************)
(* page.tsx: the transcript reconciler and the metrics recorder            *)
(***************************************************************************)
\* prev.filter(s => s.type === 'final')
finals(prev) == SelectSeq(prev, LAMBDA s : s.type = "final")

partials(prev) == SelectSeq(prev, LAMBDA s : s.type = "partial")

\* the updater passed to setTranscript in ws.onmessage
setTranscriptUpdater_NoFilter(prev, data, ts) ==
  LET newSegment == [text |-> data.text, type |-> data.type, timestamp |-> ts]
  IN  IF data.type = "partial"
        THEN finals(prev) \o <<newSegment>>
        ELSE prev \o <<newSegment>>

setTranscriptUpdater_AppendPartial(prev, data, ts) ==
  LET newSegment == [text |-> data.text, type |-> data.type, timestamp |-> ts]
  IN  IF data.type = "partial"
        THEN prev \o <<newSegment>>
        ELSE finals(prev) \o <<newSegment>>

setTranscriptUpdater_DropFinals(prev, data, ts) ==
  LET newSegment == [text |-> data.text, type |-> data.type, timestamp |-> ts]
  IN  IF data.type = "partial"
        THEN finals(prev) \o <<newSegment>>
        ELSE <<newSegment>>

setTranscriptUpdater(prev, data, ts) ==
  LET newSegment == [text |-> data.text, type |-> data.type, timestamp |-> ts]
  IN  IF data.type = "partial"
        THEN LET filtered == finals(prev) IN filtered \o <<newSegment>>
        ELSE finals(prev) \o <<newSegment>>

\* ws.onmessage: the branch of the if / else-if chain on data.type that
\* runs ("none": no branch, the handler returns)
onmessageBranch_DefaultError(data) ==
  CASE data.type = "connected" -> "connected"
    [] data.type \in {"partial", "final"} -> "segment"
    [] data.type = "model_switched" -> "model_switched"
    [] OTHER -> "error"

onmessageBranch_ErrorIgnored(data) ==
  CASE data.type = "connected" -> "connected"
    [] data.type \in {"partial", "final"} -> "segment"
    [] data.type = "model_switched" -> "model_switched"
    [] OTHER -> "none"

onmessageBranch(data) ==
  CASE data.type = "connected" -> "connected"
    [] data.type \in {"partial", "final"} -> "segment"
    [] data.type = "model_switched" -> "model_switched"
    [] data.type = "error" -> "error"
    [] OTHER -> "none"

\* ws.onmessage from its first line: JSON.parse throws on a payload that is
\* not JSON ("#malformed"), the exception leaves the handler and no branch
\* runs
onmessageRuns_ParseErrorReported(data) ==
  IF data.type = "#malformed" THEN "error" ELSE onmessageBranch(data)

onmessageRuns(data) ==
  IF data.type = "#malformed" THEN "none" ELSE onmessageBranch(data)

\* ws.onmessage, the partial/final branch on the transcript:
\* if (data.text) setTranscript(updater)
onmessageTranscript_EmptyDropsPartial(prev, data, ts) ==
  IF data.text # "" THEN setTranscriptUpdater(prev, data, ts) ELSE finals(prev)

onmessageTranscript(prev, data, ts) ==
  IF data.text # "" THEN setTranscriptUpdater(prev, data, ts) ELSE prev

\* ws.onmessage, the partial/final branch on the metrics history:
\* if (data.metrics) metricsHistoryRef.current.push(data.metrics)
onmessageHistory_Replace(history, data) ==
  IF data.metrics # <<>> THEN <<data.metrics[1]>> ELSE history

onmessageHistory(history, data) ==
  IF data.metrics # <<>> THEN Append(history, data.metrics[1]) ELSE history

\* transcript.map(s => s.text).join(' ')
RECURSIVE join(_)
join(texts) ==
  IF Len(texts) = 0 THEN ""
  ELSE IF Len(texts) = 1 THEN texts[1]
  ELSE texts[1] \o " " \o join(Tail(texts))

textsOf(segs) == [i \in 1..Len(segs) |-> segs[i].text]

stopTranscript_FinalsOnly(segs) == join(textsOf(finals(segs)))

stopTranscript(segs) == join(textsOf(segs))

\* the SessionData object built by stopRecording
sessionDataOf(model, start, t, history, segs) ==
  [model |-> model, timestamp |-> start, duration |-> t - start,
   metrics |-> history, transcript |-> stopTranscript(segs)]

\* resetTranscript: setTranscript([])
resetSegments_KeepFinals(prev) == finals(prev)

resetSegments(prev) == <<>>

(***************************************************************************)
(* The WebSocket object                                                    *)
(***************************************************************************)
\* WebSocket.close(): a connecting or open socket starts closing
wsClose(rs) == IF rs \in {"CONNECTING", "OPEN"} THEN "CLOSING" ELSE rs

\* wsRef.current?.readyState === WebSocket.OPEN
wsIsOpen(ref, c) == ref # 0 /\ c[ref] = "OPEN"

AudioMsg(f) == [kind |-> "audio", frame |-> f]
ResetMsg    == [kind |-> "reset", frame |-> 0]

\* workletNode.port.onmessage: the messages sent for one frame
portOnmessage_Prepend(ref, c, s, f) ==
  IF wsIsOpen(ref, c) THEN [s EXCEPT ![ref] = <<AudioMsg(f)>> \o @] ELSE s

portOnmessage_AnyState(ref, c, s, f) ==
  IF ref # 0 THEN [s EXCEPT ![ref] = Append(@, AudioMsg(f))] ELSE s

portOnmessage(ref, c, s, f) ==
  IF wsIsOpen(ref, c) THEN [s EXCEPT ![ref] = Append(@, AudioMsg(f))] ELSE s

\* resetTranscript: the control message, sent if the socket is OPEN
resetSend_AnyState(ref, c, s) ==
  IF ref # 0 THEN [s EXCEPT ![ref] = Append(@, ResetMsg)] ELSE s

resetSend(ref, c, s) ==
  IF wsIsOpen(ref, c) THEN [s EXCEPT ![ref] = Append(@, ResetMsg)] ELSE s

\* the value of lastOp: the handler, the object it ran for, its input,
\* (for resetTranscript) the number of segments it found, and the calls or
\* status assignments the handler made, in the order it made them
Op(name, k, data) ==
  [op |-> name, k |-> k, data |-> data, pre |-> 0, log |-> <<>>]
OpPre(name, k, n) ==
  [op |-> name, k |-> k, data |-> NoData, pre |-> n, log |-> <<>>]
OpLog(name, k, log) ==
  [op |-> name, k |-> k, data |-> NoData, pre |-> 0, log |-> log]

(***************************************************************************)
(* localStorage['transcription_sessions']: absent (<<>>) or a stored list  *)
(***************************************************************************)
\* a fresh browser profile: the key is absent
InitialStorage == { <<>> }

\* JSON.parse(localStorage.getItem('transcription_sessions') || '[]')
loadStored(st) == IF st = <<>> THEN <<>> ELSE st[1]

\* sessions.push(sessionData); localStorage.setItem(..., JSON.stringify(sessions))
saveSession_Overwrite(st, sessionData) == << <<sessionData>> >>

saveSession(st, sessionData) == << Append(loadStored(st), sessionData) >>

(***************************************************************************)
(* Initial state: the page after its first render, no recording started,   *)
(* and a freshly constructed AudioCaptureProcessor                         *)
(***************************************************************************)
\* MetricsDisplay.tsx: the sample the panel displays, <<>> when it renders
\* the placeholder: if (!isRecording || !metrics) return <placeholder>
metricsShown(recording, latest) ==
  IF ~recording \/ latest = <<>> THEN <<>> ELSE latest

InitPage(stores) ==
  /\ isRecording = FALSE
  /\ transcript = <<>>
  /\ currentModel = "vosk"
  /\ metrics = <<>>
  /\ status = "Disconnected"
  /\ wsRef = 0
  /\ audioContextRef = 0
  /\ workletNodeRef = 0
  /\ streamRef = 0
  /\ sessionStartRef = 0
  /\ metricsHistoryRef = <<>>
  /\ storage \in stores
  /\ startPc = [k \in Starts |-> "idle"]
  /\ conn = [k \in Starts |-> "none"]
  /\ ctx = [k \in Starts |-> "none"]
  /\ node = [k \in Starts |-> "none"]
  /\ stream = [k \in Starts |-> "none"]
  /\ sent = [k \in Starts |-> <<>>]
  /\ now = 1
  /\ lastOp = Op("init", 0, NoData)
  /\ handed = <<>>
  /\ recv = <<>>
  /\ nMsgs = 0
  /\ switchReqs = <<>>
  /\ showComparison = FALSE
  /\ sessions = <<>>
  /\ selectedSessions = <<>>
  /\ buffer = [i \in 1..bufferSize |-> 0]
  /\ bufferIndex = 0
  /\ posted = <<>>
  /\ captured = <<>>

Init == InitPage(InitialStorage)

(***************************************************************************)
(* page.tsx: startRecording (async) with initializeAudio inlined.  The     *)
(* call suspends at `await getUserMedia` and at `await addModule`; between *)
(* the two and after the second it runs to its end without interleaving.   *)
(***************************************************************************)
\* click on the Start button (shown while isRecording is false):
\* startRecording -> initializeAudio -> getUserMedia(...) is awaited
StartRecording(k) ==
  /\ ~isRecording
  /\ startPc[k] = "idle"
  /\ \A j \in Starts : j < k => startPc[j] # "idle"
  /\ startPc' = [startPc EXCEPT ![k] = "gum"]
  /\ now' = now + 1
  /\ lastOp' = Op("startRecording", k, NoData)
  /\ UNCHANGED <<isRecording, transcript, currentModel, metrics, status,
                 wsRef, audioContextRef, workletNodeRef, streamRef,
                 sessionStartRef, metricsHistoryRef, storage,
                 conn, ctx, node, stream, sent, handed, recv, nMsgs,
                 encVars, switchReqs, cvVars>>

\* the catch block of initializeAudio, then `if (!audioReady) return`
InitFailed_Quiet(k) ==
  /\ status' = status
  /\ startPc' = [startPc EXCEPT ![k] = "done"]

InitFailed(k) ==
  /\ status' = "Audio initialization failed"
  /\ startPc' = [startPc EXCEPT ![k] = "done"]

\* getUserMedia settles; on success streamRef is set, the AudioContext is
\* constructed (ctxOk) and addModule(...) is awaited
GetUserMediaSettles(k, ok, ctxOk) ==
  /\ startPc[k] = "gum"
  /\ lastOp' = OpLog("getUserMedia", k,
                     IF ok /\ ctxOk THEN <<>> ELSE <<"catch">>)
  /\ IF ~ok
       THEN /\ InitFailed(k)
            /\ UNCHANGED <<stream, streamRef, ctx, audioContextRef>>
       ELSE /\ stream' = [stream EXCEPT ![k] = "live"]
            /\ streamRef' = k
            /\ IF ctxOk
                 THEN /\ ctx' = [ctx EXCEPT ![k] = "running"]
                      /\ audioContextRef' = k
                      /\ startPc' = [startPc EXCEPT ![k] = "module"]
                      /\ UNCHANGED status
                 ELSE /\ InitFailed(k)
                      /\ UNCHANGED <<ctx, audioContextRef>>
  /\ UNCHANGED <<isRecording, transcript, currentModel, metrics,
                 wsRef, workletNodeRef, sessionStartRef, metricsHistoryRef,
                 storage, conn, node, sent, now, handed, recv, nMsgs,
                 encVars, switchReqs, cvVars>>

\* addModule settles; on success the worklet node is created (nodeOk), its
\* port callback installed and the graph connected; initializeAudio returns
\* true and startRecording continues: connectWebSocket(), setIsRecording,
\* sessionStartRef, metricsHistoryRef.current = [], setTranscript([])
AddModuleSettles(k, ok, nodeOk) ==
  /\ startPc[k] = "module"
  /\ lastOp' = OpLog("addModule", k,
                     IF ok /\ nodeOk THEN <<>> ELSE <<"catch">>)
  /\ IF ~(ok /\ nodeOk)
       THEN /\ InitFailed(k)
            /\ UNCHANGED <<node, workletNodeRef, conn, wsRef, isRecording,
                           sessionStartRef, metricsHistoryRef, transcript,
                           recv>>
       ELSE /\ node' = [node EXCEPT ![k] = "connected"]
            /\ workletNodeRef' = k
            /\ conn' = [conn EXCEPT ![k] = "CONNECTING"]
            /\ wsRef' = k
            /\ isRecording' = TRUE
            /\ sessionStartRef' = now
            /\ metricsHistoryRef' = <<>>
            /\ transcript' = <<>>
            /\ recv' = <<>>
            /\ startPc' = [startPc EXCEPT ![k] = "done"]
            /\ UNCHANGED status
  /\ UNCHANGED <<currentModel, metrics, audioContextRef, streamRef, storage,
                 ctx, stream, sent, now, handed, nMsgs,
                 encVars, switchReqs, cvVars>>

(***************************************************************************)
(* page.tsx: stopRecording (click on the Stop button, shown while          *)
(* isRecording is true)                                                    *)
(***************************************************************************)
\* the accesses to localStorage at lines 166-168 can throw: getItem when the
\* store is unavailable, JSON.parse when the stored text is not JSON, setItem
\* when the quota of the origin is exceeded
StorageFaults == {"SecurityError", "SyntaxError", "QuotaExceededError"}

\* the cleanup calls of lines 171-189 in program order; a call is made only
\* if its ref is not null
teardownSteps(ws, wn, ac, st) ==
  (IF ws # 0 THEN <<"ws.close">> ELSE <<>>)
  \o (IF wn # 0 THEN <<"workletNode.disconnect">> ELSE <<>>)
  \o (IF ac # 0 THEN <<"audioContext.close">> ELSE <<>>)
  \o (IF st # 0 THEN <<"track.stop">> ELSE <<>>)

\* stopRecording has no try/catch: an exception of lines 166-168 leaves the
\* function there and nothing below those lines runs
StopRecording(fault) ==
  /\ isRecording
  /\ IF fault \in StorageFaults
       THEN /\ lastOp' = OpLog("stopRecording:throws", wsRef, <<"throw">>)
            /\ UNCHANGED <<now, storage, conn, wsRef, node, workletNodeRef,
                           ctx, audioContextRef, stream, streamRef,
                           isRecording, status>>
       ELSE /\ now' = now + 1
            /\ LET sessionData ==
                     sessionDataOf(currentModel, sessionStartRef, now',
                                   metricsHistoryRef, transcript)
               IN  storage' = saveSession(storage, sessionData)
            /\ conn' = IF wsRef # 0
                         THEN [conn EXCEPT ![wsRef] = wsClose(@)] ELSE conn
            /\ wsRef' = 0
            /\ node' = IF workletNodeRef # 0
                         THEN [node EXCEPT ![workletNodeRef] = "disconnected"]
                         ELSE node
            /\ workletNodeRef' = 0
            /\ ctx' = IF audioContextRef # 0
                        THEN [ctx EXCEPT ![audioContextRef] = "closed"]
                        ELSE ctx
            /\ audioContextRef' = 0
            /\ stream' = IF streamRef # 0
                           THEN [stream EXCEPT ![streamRef] = "stopped"]
                           ELSE stream
            /\ streamRef' = 0
            /\ isRecording' = FALSE
            /\ status' = "Stopped"
            /\ lastOp' = OpLog("stopRecording", wsRef,
                               teardownSteps(wsRef, workletNodeRef,
                                             audioContextRef, streamRef))
  /\ UNCHANGED <<transcript, currentModel, metrics, sessionStartRef,
                 metricsHistoryRef, startPc, sent, handed, recv, nMsgs,
                 encVars, switchReqs, cvVars>>

(***************************************************************************)
(* page.tsx: resetTranscript (the Reset button is disabled unless          *)
(* isRecording)                                                            *)
(***************************************************************************)
ResetTranscript ==
  /\ isRecording
  /\ wsIsOpen(wsRef, conn) =>
       Len(SelectSeq(sent[wsRef], LAMBDA m : m.kind = "reset")) < MaxResets
  /\ transcript' = resetSegments(transcript)
  /\ sent' = resetSend(wsRef, conn, sent)
  /\ lastOp' = OpPre("resetTranscript", wsRef, Len(transcript))
  /\ UNCHANGED <<isRecording, currentModel, metrics, status, wsRef,
                 audioContextRef, workletNodeRef, streamRef, sessionStartRef,
                 metricsHistoryRef, storage, startPc, conn, ctx, node, stream,
                 now, handed, recv, nMsgs,
                 encVars, switchReqs, cvVars>>

(***************************************************************************)
(* page.tsx: callbacks of the WebSocket created by the k-th start          *)
(***************************************************************************)
\* ws.onopen
WsOpen(k) ==
  /\ conn[k] = "CONNECTING"
  /\ conn' = [conn EXCEPT ![k] = "OPEN"]
  /\ status' = "Connected"
  /\ lastOp' = Op("onopen", k, NoData)
  /\ UNCHANGED <<isRecording, transcript, currentModel, metrics, wsRef,
                 audioContextRef, workletNodeRef, streamRef, sessionStartRef,
                 metricsHistoryRef, storage, startPc, ctx, node, stream, sent,
                 now, handed, recv, nMsgs,
                 encVars, switchReqs, cvVars>>

\* ws.onmessage; message events are delivered only while the socket is OPEN.
\* JSON.parse throws on a payload that is not JSON ("#malformed") and the
\* handler ends there
WsMessage(k, data) ==
  /\ conn[k] = "OPEN"
  /\ nMsgs < MaxMessages
  /\ nMsgs' = nMsgs + 1
  /\ lastOp' = Op("onmessage", k, data)
  /\ CASE onmessageRuns(data) = "connected" ->
            /\ currentModel' = data.model
            /\ UNCHANGED <<transcript, metrics, status, metricsHistoryRef,
                           recv>>
       [] onmessageRuns(data) = "segment" ->
            /\ transcript' = onmessageTranscript(transcript, data, now)
            /\ metrics' = IF data.metrics # <<>> THEN data.metrics ELSE metrics
            /\ metricsHistoryRef' = onmessageHistory(metricsHistoryRef, data)
            /\ recv' = IF data.metrics # <<>>
                         THEN Append(recv, [conn |-> k, sample |-> data.metrics[1]])
                         ELSE recv
            /\ UNCHANGED <<currentModel, status>>
       [] onmessageRuns(data) = "model_switched" ->
            /\ currentModel' = data.model
            /\ status' = "Switched to " \o data.model
            /\ UNCHANGED <<transcript, metrics, metricsHistoryRef, recv>>
       [] onmessageRuns(data) = "error" ->
            /\ status' = "Error: " \o data.message
            /\ UNCHANGED <<transcript, currentModel, metrics,
                           metricsHistoryRef, recv>>
       [] OTHER ->
            UNCHANGED <<transcript, currentModel, metrics, status,
                        metricsHistoryRef, recv>>
  /\ UNCHANGED <<isRecording, wsRef, audioContextRef, workletNodeRef,
                 streamRef, sessionStartRef, storage, startPc, conn, ctx,
                 node, stream, sent, now, handed,
                 encVars, switchReqs, cvVars>>

\* ws.onerror: setStatus('Connection error')
onerrorStatus_Silent(st) == st

onerrorStatus(st) == "Connection error"

\* ws.onclose: setStatus('Disconnected')
oncloseStatus(st) == "Disconnected"

\* the connection closes (remote close, transport failure, or the end of a
\* close() started locally): readyState becomes CLOSED, then ws.onerror runs
\* if the connection failed, then ws.onclose, all in one task
WsClosed(k, failed) ==
  /\ conn[k] \in {"CONNECTING", "OPEN", "CLOSING"}
  /\ conn' = [conn EXCEPT ![k] = "CLOSED"]
  /\ LET afterError == IF failed THEN onerrorStatus(status) ELSE status
         afterClose == oncloseStatus(afterError)
     IN  /\ status' = afterClose
         /\ lastOp' = OpLog(IF failed THEN "onerror+onclose" ELSE "onclose", k,
                            (IF failed THEN <<afterError>> ELSE <<>>)
                            \o <<afterClose>>)
  /\ UNCHANGED <<isRecording, transcript, currentModel, metrics, wsRef,
                 audioContextRef, workletNodeRef, streamRef, sessionStartRef,
                 metricsHistoryRef, storage, startPc, ctx, node, stream, sent,
                 now, handed, recv, nMsgs,
                 encVars, switchReqs, cvVars>>

(***************************************************************************)
(* page.tsx: workletNode.port.onmessage of the k-th start's worklet node,  *)
(* called with the next frame that worklet posted                          *)
(***************************************************************************)
PortMessage(k) ==
  /\ node[k] # "none"
  /\ ctx[k] = "running"
  /\ Len(handed) < MaxFrames
  /\ LET f == Len(handed) + 1
     IN  /\ sent' = portOnmessage(wsRef, conn, sent, f)
         /\ handed' = Append(handed,
                        [frame |-> f, ws |-> wsRef,
                         rs |-> IF wsRef # 0 THEN conn[wsRef] ELSE "none"])
  /\ lastOp' = Op("port.onmessage", k, NoData)
  /\ UNCHANGED <<isRecording, transcript, currentModel, metrics, status,
                 wsRef, audioContextRef, workletNodeRef, streamRef,
                 sessionStartRef, metricsHistoryRef, storage, startPc, conn,
                 ctx, node, stream, now, recv, nMsgs,
                 encVars, switchReqs, cvVars>>

(***************************************************************************)
(* audio-processor.js: AudioCaptureProcessor.  A sample is a rational in   *)
(* units of 1/Unit (so Unit stands for 1.0); such values are exact in a    *)
(* Float32Array.                                                           *)
(***************************************************************************)
Unit == 4
InputSamples == {-8, -4, -1, 1, 6}

\* Math.max(-1, Math.min(1, x))
clamp(x) == IF x > Unit THEN Unit ELSE IF x < -Unit THEN -Unit ELSE x

\* the value of num/Unit truncated toward zero (the integer part an
\* Int16Array element keeps of a fractional number)
truncate(num) == IF num >= 0 THEN num \div Unit ELSE -((-num) \div Unit)

\* the conversion of an integer stored into an Int16Array: modulo 2^16,
\* read as a signed 16-bit value
toInt16(n) == LET m == n % 65536 IN IF m >= 32768 THEN m - 65536 ELSE m

\* one element of floatTo16BitPCM:
\*   s = clamp(x); int16Array[i] = s < 0 ? s * 0x8000 : s * 0x7fff
pcmOf_NoClamp(x) ==
  toInt16(truncate(IF x < 0 THEN x * 32768 ELSE x * 32767))

pcmOf(x) ==
  LET s == clamp(x)
  IN  toInt16(truncate(IF s < 0 THEN s * 32768 ELSE s * 32767))

floatTo16BitPCM(float32Array) ==
  [i \in 1..Len(float32Array) |-> pcmOf(float32Array[i])]

emptyBuffer == [i \in 1..bufferSize |-> 0]

\* the body of the for loop of process() for the sample x, on the processor
\* state p = [buffer, bufferIndex, posted]
pushSample_EarlyFlush(p, x) ==
  LET buf == [p.buffer EXCEPT ![p.bufferIndex + 1] = x]
      idx == p.bufferIndex + 1
  IN  IF idx >= bufferSize - 1
        THEN [buffer |-> emptyBuffer, bufferIndex |-> 0,
              posted |-> Append(p.posted, floatTo16BitPCM(SubSeq(buf, 1, idx)))]
        ELSE [buffer |-> buf, bufferIndex |-> idx, posted |-> p.posted]

pushSample(p, x) ==
  LET buf == [p.buffer EXCEPT ![p.bufferIndex + 1] = x]
      idx == p.bufferIndex + 1
  IN  IF idx >= bufferSize
        THEN [buffer |-> emptyBuffer, bufferIndex |-> 0,
              posted |-> Append(p.posted, floatTo16BitPCM(buf))]
        ELSE [buffer |-> buf, bufferIndex |-> idx, posted |-> p.posted]

\* for (let i = 0; i < inputChannel.length; i++) { ... }
RECURSIVE processLoop(_, _, _)
processLoop(p, inputChannel, i) ==
  IF i > Len(inputChannel) THEN p
  ELSE processLoop(pushSample(p, inputChannel[i]), inputChannel, i + 1)

\* process(inputs): input = inputs[0] is a sequence of channels, empty when
\* the node has no input data
process(p, input) ==
  IF Len(input) > 0 THEN processLoop(p, input[1], 1) ELSE p

RECURSIVE SeqsOfLen(_, _)
SeqsOfLen(S, n) ==
  IF n = 0 THEN {<<>>}
  ELSE {Append(q, x) : q \in SeqsOfLen(S, n - 1), x \in S}

Blocks(maxLen) == UNION {SeqsOfLen(InputSamples, n) : n \in 0..maxLen}

\* one call of process() by the audio engine
Process(input) ==
  /\ Len(captured) + (IF Len(input) > 0 THEN Len(input[1]) ELSE 0) <= MaxTotal
  /\ LET p == process([buffer |-> buffer, bufferIndex |-> bufferIndex,
                       posted |-> posted], input)
     IN  /\ buffer' = p.buffer
         /\ bufferIndex' = p.bufferIndex
         /\ posted' = p.posted
  /\ captured' = IF Len(input) > 0 THEN captured \o input[1] ELSE captured
  /\ UNCHANGED <<pageVars, switchReqs, cvVars>>

EncoderNext ==
  \E input \in {<<>>} \cup {<<b>> : b \in Blocks(MaxBlock)} : Process(input)

(***************************************************************************)
(* page.tsx: switchModel (async).  The two model buttons are disabled      *)
(* while isRecording (lines 265, 276), and the function returns at once    *)
(* when isRecording; otherwise it sends POST /api/model and awaits the     *)
(* response.                                                               *)
(***************************************************************************)
MaxSwitches == 1   \* clicks on a model button in one behaviour

\* click on a model button: fetch(...) is sent and awaited
SwitchModel(model) ==
  /\ ~isRecording
  /\ Len(switchReqs) < MaxSwitches
  /\ switchReqs' = Append(switchReqs, [model |-> model, state |-> "pending"])
  /\ lastOp' = OpLog("switchModel", 0, <<model>>)
  /\ UNCHANGED <<isRecording, transcript, currentModel, metrics, status,
                 wsRef, audioContextRef, workletNodeRef, streamRef,
                 sessionStartRef, metricsHistoryRef, storage, startPc, conn,
                 ctx, node, stream, sent, now, handed, recv, nMsgs,
                 encVars, cvVars>>

\* the fetch of the i-th request settles: with a response whose body names
\* the model the backend now uses, or with a failure (the catch block)
SwitchModelSettles(i, ok, model) ==
  /\ i \in 1..Len(switchReqs)
  /\ switchReqs[i].state = "pending"
  /\ IF ok
       THEN /\ currentModel' = model
            /\ status' = "Model set to " \o model
            /\ switchReqs' = [switchReqs EXCEPT ![i].state = "done"]
       ELSE /\ status' = "Failed to switch model"
            /\ switchReqs' = [switchReqs EXCEPT ![i].state = "failed"]
            /\ UNCHANGED currentModel
  /\ lastOp' = OpLog("switchModel:settled", 0, <<switchReqs[i].model>>)
  /\ UNCHANGED <<isRecording, transcript, metrics,
                 wsRef, audioContextRef, workletNodeRef, streamRef,
                 sessionStartRef, metricsHistoryRef, storage, startPc, conn,
                 ctx, node, stream, sent, now, handed, recv, nMsgs,
                 encVars, cvVars>>

(***************************************************************************)
(* ComparisonView.tsx.  The component is mounted while showComparison is   *)
(* true; its state starts empty at every mount and the mount effect runs   *)
(* loadSessions.  Session indices are those of the program (from 0); the   *)
(* session of index i is sessions[i + 1].                                  *)
(***************************************************************************)
\* the selection loadSessions makes for a parsed list of n sessions
loadSelection(prev, n) ==
  IF n >= 2 THEN <<n - 2, n - 1>> ELSE IF n = 1 THEN <<0>> ELSE prev

includes(list, x) == \E i \in 1..Len(list) : list[i] = x

\* [...prev, index].slice(-2)
lastTwo(list) ==
  IF Len(list) <= 2 THEN list ELSE SubSeq(list, Len(list) - 1, Len(list))

\* the updater of toggleSession
toggleSessionUpdater_KeepFirst(prev, index) ==
  IF includes(prev, index)
    THEN SelectSeq(prev, LAMBDA i : i # index)
    ELSE LET list == Append(prev, index)
         IN  IF Len(list) <= 2 THEN list ELSE SubSeq(list, 1, 2)

toggleSessionUpdater(prev, index) ==
  IF includes(prev, index)
    THEN SelectSeq(prev, LAMBDA i : i # index)
    ELSE lastTwo(Append(prev, index))

\* the number sum / count, as a fraction in lowest terms
RECURSIVE gcd(_, _)
gcd(a, b) == IF b = 0 THEN a ELSE gcd(b, a % b)

quotient(sum, count) ==
  LET g == gcd(sum, count) IN [num |-> sum \div g, den |-> count \div g]

\* session.metrics.reduce((acc, m) => ({...}), {cpu: 0, memory: 0, ...})
RECURSIVE reduceMetrics(_, _, _)
reduceMetrics(ms, i, acc) ==
  IF i > Len(ms) THEN acc
  ELSE reduceMetrics(ms, i + 1,
         [cpu       |-> acc.cpu + ms[i].cpu_percent,
          memory    |-> acc.memory + ms[i].memory_mb,
          chunkTime |-> acc.chunkTime + ms[i].avg_chunk_time_ms,
          rtf       |-> acc.rtf + ms[i].rtf])

zeroSum == [cpu |-> 0, memory |-> 0, chunkTime |-> 0, rtf |-> 0]

averagesOf(sum, count) ==
  [avgCPU       |-> quotient(sum.cpu, count),
   avgMemory    |-> quotient(sum.memory, count),
   avgChunkTime |-> quotient(sum.chunkTime, count),
   avgRTF       |-> quotient(sum.rtf, count)]

\* getAverageMetrics: <<>> stands for null, <<r>> for the object r
getAverageMetrics_ZeroWhenEmpty(session) ==
  IF Len(session.metrics) = 0 THEN << averagesOf(zeroSum, 1) >>
  ELSE << averagesOf(reduceMetrics(session.metrics, 1, zeroSum),
                     Len(session.metrics)) >>

getAverageMetrics(session) ==
  IF Len(session.metrics) = 0 THEN <<>>
  ELSE << averagesOf(reduceMetrics(session.metrics, 1, zeroSum),
                     Len(session.metrics)) >>

\* the rows of the charts: one per selected session that has averages
\* (`...avg` adds no field when avg is null and the filter drops the row)
comparisonData ==
  LET rows == [i \in 1..Len(selectedSessions) |->
                 LET session == sessions[selectedSessions[i] + 1]
                 IN  [model |-> session.model,
                      avg |-> getAverageMetrics(session)]]
  IN  SelectSeq(rows, LAMBDA d : d.avg # <<>>)

\* click on the Show/Hide Comparison button: setShowComparison(!showComparison).
\* Showing mounts the component and runs loadSessions; hiding unmounts it.
ToggleComparison ==
  /\ showComparison' = ~showComparison
  /\ IF ~showComparison /\ storage # <<>>
       THEN LET parsed == storage[1]
            IN  /\ sessions' = parsed
                /\ selectedSessions' = loadSelection(<<>>, Len(parsed))
       ELSE /\ sessions' = <<>>
            /\ selectedSessions' = <<>>
  /\ lastOp' = Op(IF showComparison THEN "hideComparison"
                                    ELSE "showComparison", 0, NoData)
  /\ UNCHANGED <<isRecording, transcript, currentModel, metrics, status,
                 wsRef, audioContextRef, workletNodeRef, streamRef,
                 sessionStartRef, metricsHistoryRef, storage, startPc, conn,
                 ctx, node, stream, sent, now, handed, recv, nMsgs,
                 encVars, switchReqs>>

\* click on the session of index idx in the list
ToggleSession(idx) ==
  /\ showComparison
  /\ idx \in 0..(Len(sessions) - 1)
  /\ selectedSessions' = toggleSessionUpdater(selectedSessions, idx)
  /\ lastOp' = OpPre("toggleSession", idx, Len(selectedSessions))
  /\ UNCHANGED <<isRecording, transcript, currentModel, metrics, status,
                 wsRef, audioContextRef, workletNodeRef, streamRef,
                 sessionStartRef, metricsHistoryRef, storage, startPc, conn,
                 ctx, node, stream, sent, now, handed, recv, nMsgs,
                 encVars, switchReqs, showComparison, sessions>>

\* click on Clear (shown with a non-empty list), then the confirm dialog
ClearSessions(confirmed) ==
  /\ showComparison
  /\ Len(sessions) > 0
  /\ IF confirmed
       THEN /\ storage' = <<>>
            /\ sessions' = <<>>
            /\ selectedSessions' = <<>>
       ELSE UNCHANGED <<storage, sessions, selectedSessions>>
  /\ lastOp' = OpLog("clearSessions", 0,
                     IF confirmed THEN <<"confirmed">> ELSE <<"declined">>)
  /\ UNCHANGED <<isRecording, transcript, currentModel, metrics, status,
                 wsRef, audioContextRef, workletNodeRef, streamRef,
                 sessionStartRef, metricsHistoryRef, startPc, conn,
                 ctx, node, stream, sent, now, handed, recv, nMsgs,
                 encVars, switchReqs, showComparison>>

\* click on Export (shown with a non-empty list): the file downloaded holds
\* JSON.stringify(sessions, null, 2), recorded in lastOp as the list it
\* parses to
ExportData ==
  /\ showComparison
  /\ Len(sessions) > 0
  /\ lastOp' = [op |-> "exportData", k |-> 0, data |-> NoData, pre |-> 0,
                log |-> sessions]
  /\ UNCHANGED <<isRecording, transcript, currentModel, metrics, status,
                 wsRef, audioContextRef, workletNodeRef, streamRef,
                 sessionStartRef, metricsHistoryRef, storage, startPc, conn,
                 ctx, node, stream, sent, now, handed, recv, nMsgs,
                 encVars, switchReqs, cvVars>>

(***************************************************************************)
(* Sessions found in localStorage when the page loads: saved by            *)
(* stopRecording in earlier visits                                         *)
(***************************************************************************)
MaxStored == 3   \* stored sessions SpecCompare starts from

SessionA ==
  [model |-> "vosk", timestamp |-> 1, duration |-> 2, metrics |-> <<>>,
   transcript |-> ""]
SessionB ==
  [model |-> "whisper", timestamp |-> 4, duration |-> 3,
   metrics |-> <<Sample1, Sample2>>, transcript |-> "hello world"]
SessionC ==
  [model |-> "vosk", timestamp |-> 8, duration |-> 1,
   metrics |-> <<Sample1, Sample2, Sample2>>, transcript |-> "he"]
SavedSessions == {SessionA, SessionB, SessionC}

StoredLists(maxLen) ==
  { <<>> } \cup { <<list>> : list \in
                   UNION {SeqsOfLen(SavedSessions, n) : n \in 1..maxLen} }

(***************************************************************************)
(* Specifications                                                          *)
(***************************************************************************)
\* start, stop, reset and the life cycle of the connections
Lifecycle ==
  \/ \E k \in Starts : StartRecording(k)
  \/ \E k \in Starts, ok \in BOOLEAN, ctxOk \in BOOLEAN :
       GetUserMediaSettles(k, ok, ctxOk)
  \/ \E k \in Starts, ok \in BOOLEAN, nodeOk \in BOOLEAN :
       AddModuleSettles(k, ok, nodeOk)
  \/ \E fault \in {"none"} \cup StorageFaults : StopRecording(fault)
  \/ ResetTranscript
  \/ \E k \in Starts : WsOpen(k)
  \/ \E k \in Starts, failed \in BOOLEAN : WsClosed(k, failed)

Inbound == \E k \in Starts, data \in Messages : WsMessage(k, data)

Frames == \E k \in Starts : PortMessage(k)

\* the whole system
Switch ==
  \/ \E model \in Models : SwitchModel(model)
  \/ \E i \in 1..MaxSwitches, ok \in BOOLEAN, model \in Models :
       SwitchModelSettles(i, ok, model)

Compare ==
  \/ ToggleComparison
  \/ \E idx \in 0..(MaxStored + MaxStarts - 1) : ToggleSession(idx)
  \/ \E confirmed \in BOOLEAN : ClearSessions(confirmed)
  \/ ExportData

Next == Lifecycle \/ Inbound \/ Frames \/ EncoderNext \/ Switch \/ Compare

Spec == Init /\ [][Next]_vars

\* the page receiving inbound messages (no audio frame is handed over)
EventsNext == Lifecycle \/ Inbound

SpecEvents == Init /\ [][EventsNext]_vars

\* the page forwarding audio frames (the backend sends nothing)
StreamNext == Lifecycle \/ Frames

SpecStream == Init /\ [][StreamNext]_vars

\* the audio worklet processor alone
SpecEncoder == Init /\ [][EncoderNext]_vars

\* start/stop of recordings and the model switch
ControlNext == Lifecycle \/ Switch

SpecControl == Init /\ [][ControlNext]_vars

\* the comparison view over the sessions of earlier visits
InitCompare == InitPage(StoredLists(MaxStored))

SpecCompare == InitCompare /\ [][Compare]_vars

\* recordings that receive metrics, are saved at stop and loaded by the view
InitSessions == InitPage({ <<>>, << <<SessionB>> >> })

SessionsNext ==
  \/ Lifecycle
  \/ \E k \in Starts :
       WsMessage(k, Msg("final", "he", "", "", <<Sample1>>))
  \/ ToggleComparison

SpecSessions == InitSessions /\ [][SessionsNext]_vars

(***************************************************************************)
(* Properties                                                              *)
(***************************************************************************)
IsPrefix(a, b) == Len(a) <= Len(b) /\ SubSeq(b, 1, Len(a)) = a

\* the persisted list of sessions
stored == loadStored(storage)

\* a step that delivered an inbound message
MessageStep == nMsgs' = nMsgs + 1

\* C1: in every reachable state the segment list holds at most one partial
\* segment, and a partial segment is the last element, after all finals.
C1_AtMostOneTrailingPartial ==
  /\ Len(partials(transcript)) <= 1
  /\ \A i \in 1..Len(transcript) :
       transcript[i].type = "partial" => i = Len(transcript)

\* a partial event has just been merged after a committed final segment
C1_Witness ==
  /\ lastOp.op = "onmessage" /\ lastOp.data.type = "partial"
  /\ Len(transcript) = 2
  /\ transcript[1].type = "final"
  /\ transcript[2] = [text |-> "hello", type |-> "partial", timestamp |-> now]

C3_FinalsAppendOnly ==
  [][ \/ IsPrefix(finals(transcript), finals(transcript'))
      \/ lastOp'.op \in {"resetTranscript", "addModule"} ]_vars

\* a second final segment was appended behind the first
C3_Witness ==
  /\ lastOp.op = "onmessage" /\ lastOp.data.type = "final"
  /\ textsOf(transcript) = <<"hello world", "he">>

\* the texts of the segments as one string: the final texts joined by a
\* space, then the live partial text, if any
RECURSIVE spaced(_)
spaced(texts) ==
  IF texts = <<>> THEN "" ELSE spaced(SubSeq(texts, 1, Len(texts) - 1)) \o
                               (IF Len(texts) > 1 THEN " " ELSE "") \o
                               texts[Len(texts)]

\* C4 as stated: the transcript saved by stopRecording is the join of the
\* final segments' texts and holds no partial text.
C4_SavedTranscriptFinalsOnly ==
  lastOp.op = "stopRecording"
    => stored[Len(stored)].transcript = spaced(textsOf(finals(transcript)))

\* C4 as amended: the transcript saved by stopRecording is the join, with one
\* space, of the texts of all segments at stop time, in order: the final
\* segments' texts followed by the text of the live partial segment if any.
C4_SavedTranscriptAllSegments ==
  lastOp.op = "stopRecording"
    => stored[Len(stored)].transcript =
         spaced(textsOf(finals(transcript)) \o textsOf(partials(transcript)))

\* a recording was stopped while a partial segment was live behind a final
C4_Witness ==
  /\ lastOp.op = "stopRecording"
  /\ finals(transcript) # <<>>
  /\ partials(transcript) # <<>>

\* C5: resetTranscript leaves the segment list empty, whatever the state of
\* the connection.
C5_ResetEmptiesTranscript ==
  lastOp.op = "resetTranscript" => transcript = <<>>

\* a reset found segments while the connection was already closed
C5_Witness ==
  /\ lastOp.op = "resetTranscript"
  /\ lastOp.pre >= 2
  /\ lastOp.k # 0 /\ conn[lastOp.k] = "CLOSED"
  /\ sent[lastOp.k] = <<>>

\* the input samples of the f-th frame, in capture order
frameInput(f) == SubSeq(captured, (f - 1) * bufferSize + 1, f * bufferSize)

\* C6: for T input samples in total, exactly T div N frames have been posted,
\* each of exactly N samples, the f-th holding the conversion of the f-th
\* run of N consecutive input samples; the accumulator holds the T mod N
\* samples left and 0 <= bufferIndex < N between calls.
C6_FramesAreFullAndInOrder ==
  /\ Len(posted) = Len(captured) \div bufferSize
  /\ \A f \in 1..Len(posted) :
       /\ Len(posted[f]) = bufferSize
       /\ \A i \in 1..bufferSize : posted[f][i] = pcmOf(frameInput(f)[i])
  /\ bufferIndex = Len(captured) % bufferSize
  /\ 0 <= bufferIndex /\ bufferIndex < bufferSize
  /\ \A i \in 1..bufferIndex :
       buffer[i] = captured[Len(posted) * bufferSize + i]

\* two frames were posted and a shorter remainder stays in the accumulator
C6_Witness ==
  /\ Len(posted) = 2
  /\ bufferIndex > 0
  /\ posted[1] # posted[2]

\* the 16-bit value of the sample x by the stated rule: saturate at +-1.0,
\* scale a negative value by 32768 and a non-negative one by 32767
saturated(x) ==
  IF x >= Unit THEN 32767
  ELSE IF x <= -Unit THEN -32768
  ELSE IF x < 0 THEN -(((-x) * 32768) \div Unit)
  ELSE (x * 32767) \div Unit

\* C7: every sample of a posted frame is the saturating conversion of its
\* input sample: it lies in [-32768, 32767], an input above 1.0 gives 32767
\* and an input below -1.0 gives -32768; a frame is as long as its input.
C7_SaturatingConversion ==
  \A f \in 1..Len(posted) :
    /\ Len(posted[f]) = Len(frameInput(f))
    /\ \A i \in 1..Len(posted[f]) :
         LET x == frameInput(f)[i]
             y == posted[f][i]
         IN  /\ -32768 <= y /\ y <= 32767
             /\ x > Unit => y = 32767
             /\ x < -Unit => y = -32768
             /\ y = saturated(x)

\* a posted frame holds the conversions of 1.5 and of -2.0
C7_Witness ==
  \E f \in 1..Len(posted) :
    /\ frameInput(f) = <<6, -8>>
    /\ posted[f] = <<32767, -32768>>

\* the audio frames sent on the k-th connection, in send order
audioSent(k) ==
  LET a == SelectSeq(sent[k], LAMBDA m : m.kind = "audio")
  IN  [i \in 1..Len(a) |-> a[i].frame]

\* the frames handed over while the k-th connection was the current one and
\* open, in hand-over order
handedWhileOpen(k) ==
  LET h == SelectSeq(handed, LAMBDA e : e.ws = k /\ e.rs = "OPEN")
  IN  [i \in 1..Len(h) |-> h[i].frame]

\* C8: the audio messages sent on a connection are exactly the frames handed
\* over while that connection was current and open, once each and in
\* hand-over order.
C8_FramesForwardedInOrder ==
  \A k \in Starts : audioSent(k) = handedWhileOpen(k)

\* two frames were handed over and sent on the same open connection
C8_Witness ==
  \E k \in Starts :
    /\ audioSent(k) = <<1, 2>>
    /\ lastOp.op = "port.onmessage"

\* C9: the metrics history holds exactly the samples received since the
\* recording started, in arrival order, and no step changes a session that
\* is already persisted.
C9_MetricsAppendOnly ==
  [][ /\ metricsHistoryRef' = [i \in 1..Len(recv') |-> recv'[i].sample]
      /\ IsPrefix(stored, stored') ]_vars

\* a session with one sample is persisted and the next recording has
\* received two samples
C9_Witness ==
  /\ Len(stored) = 1
  /\ stored[1].metrics = <<Sample1>>
  /\ isRecording
  /\ metricsHistoryRef = <<Sample2, Sample1>>

\* the samples received on the k-th connection among those received since
\* the history was last emptied
receivedOn(k) ==
  LET r == SelectSeq(recv, LAMBDA e : e.conn = k)
  IN  [i \in 1..Len(r) |-> r[i].sample]

\* C10: the session saved by stopRecording holds exactly the samples received
\* on the stopped recording's own connection, and the transcript at stop.
C10_SessionOfOneRecording ==
  lastOp.op = "stopRecording"
    => /\ stored[Len(stored)].metrics = receivedOn(lastOp.k)
       /\ stored[Len(stored)].transcript = stopTranscript(transcript)

\* stopRecording was the last handler called, whether it returned or threw
StopCalled == lastOp.op \in {"stopRecording", "stopRecording:throws"}

\* after a call of stopRecording every ref of the page is cleared
refsCleared ==
  /\ wsRef = 0
  /\ workletNodeRef = 0
  /\ audioContextRef = 0
  /\ streamRef = 0

\* C11: whatever the state of the connection when stopRecording is called,
\* after the call the connection the page referenced is closing or closed
\* and wsRef is cleared (the part of the claim a finite run can refute).
C11_StopClosesConnection ==
  StopCalled
    => /\ wsRef = 0
       /\ lastOp.k # 0 => conn[lastOp.k] \in {"CLOSING", "CLOSED"}

\* the cleanup calls in the order the program text gives them
TeardownOrder ==
  <<"ws.close", "workletNode.disconnect", "audioContext.close", "track.stop">>

\* C12: a call of stopRecording makes its teardown calls in the order close
\* of the connection, disconnect of the worklet node, close of the audio
\* context, stop of the tracks, and after the call all four resources are
\* released, whatever failed before.
C12_TeardownInOrderAndComplete ==
  StopCalled
    => /\ lastOp.log = SelectSeq(TeardownOrder,
                                 LAMBDA step : includes(lastOp.log, step))
       /\ refsCleared
       /\ lastOp.k # 0 => conn[lastOp.k] \notin {"CONNECTING", "OPEN"}

\* C13: when the save of stopRecording meets a storage error, the recording
\* is still torn down: the connection is closing or closed, the refs are
\* cleared and isRecording is false.
C13_StorageErrorStillTearsDown ==
  lastOp.op = "stopRecording:throws"
    => /\ ~isRecording
       /\ refsCleared
       /\ lastOp.k # 0 => conn[lastOp.k] \in {"CLOSING", "CLOSED"}

\* no index occurs twice in the list
distinct(list) ==
  \A i, j \in 1..Len(list) : i # j => list[i] # list[j]

\* C14: after the automatic selection of a load and after every toggle the
\* selection holds at most 2 distinct indices of the session list; a toggle
\* of an unselected index while 2 are selected drops the one added first,
\* keeps the other and adds the new one last.
C14_SelectionWindow ==
  [][ /\ Len(selectedSessions') <= 2
      /\ distinct(selectedSessions')
      /\ \A i \in 1..Len(selectedSessions') :
           selectedSessions'[i] \in 0..(Len(sessions') - 1)
      /\ ( /\ lastOp'.op = "toggleSession"
           /\ Len(selectedSessions) = 2
           /\ ~includes(selectedSessions, lastOp'.k) )
         => selectedSessions' = <<selectedSessions[2], lastOp'.k>> ]_vars

\* index 2 was just selected while 2 others were selected, and the selection
\* is now 1, 2: index 0, selected before index 1, was dropped
C14_Witness ==
  /\ lastOp.op = "toggleSession"
  /\ lastOp.k = 2
  /\ lastOp.pre = 2
  /\ selectedSessions = <<1, 2>>

RECURSIVE Sum(_)
Sum(seq) == IF seq = <<>> THEN 0 ELSE Head(seq) + Sum(Tail(seq))

\* the fraction q is the arithmetic mean of the numbers of seq
isMean(q, seq) ==
  /\ q.den > 0
  /\ q.num * Len(seq) = Sum(seq) * q.den

\* C15: for every session the view holds, getAverageMetrics gives null when
\* the session has no sample and otherwise, for cpu, memory, chunk time and
\* rtf, the sum of the field over the samples divided by their number; the
\* chart rows are those averages, with no row for a session without samples.
C15_AveragesAreMeans ==
  /\ \A i \in 1..Len(sessions) :
       LET ms == sessions[i].metrics
           avg == getAverageMetrics(sessions[i])
           col(f(_)) == [j \in 1..Len(ms) |-> f(ms[j])]
       IN  IF Len(ms) = 0
             THEN avg = <<>>
             ELSE /\ Len(avg) = 1
                  /\ isMean(avg[1].avgCPU, col(LAMBDA m : m.cpu_percent))
                  /\ isMean(avg[1].avgMemory, col(LAMBDA m : m.memory_mb))
                  /\ isMean(avg[1].avgChunkTime,
                            col(LAMBDA m : m.avg_chunk_time_ms))
                  /\ isMean(avg[1].avgRTF, col(LAMBDA m : m.rtf))
  /\ \A r \in 1..Len(comparisonData) : comparisonData[r].avg # <<>>
  /\ Len(comparisonData) =
       Cardinality({i \in 1..Len(selectedSessions) :
                      sessions[selectedSessions[i] + 1].metrics # <<>>})

\* the view shows a session without samples and one whose mean cpu is not a
\* whole number, both selected: the chart has the row of the second only
C15_Witness ==
  /\ showComparison
  /\ Len(selectedSessions) = 2
  /\ sessions[selectedSessions[1] + 1].metrics = <<>>
  /\ Len(comparisonData) = 1
  /\ comparisonData[1].avg[1].avgCPU = [num |-> 70, den |-> 3]

\* C16: a stopRecording that saves leaves the persisted list equal to the
\* list persisted before followed by the session of the stopped recording,
\* and the list the comparison view loads is the persisted list.
C16_SaveAppendsLoadReturns ==
  [][ /\ lastOp'.op = "stopRecording"
         => stored' = Append(stored,
                        [model |-> currentModel,
                         timestamp |-> sessionStartRef,
                         duration |-> now' - sessionStartRef,
                         metrics |-> metricsHistoryRef,
                         transcript |-> stopTranscript(transcript)])
      /\ lastOp'.op = "showComparison"
         => /\ sessions' = stored
            /\ stored' = stored ]_vars

\* the view has just loaded two sessions: the one of an earlier visit, then
\* the one a recording of this visit saved with the sample it received
C16_Witness ==
  /\ lastOp.op = "showComparison"
  /\ Len(sessions) = 2
  /\ sessions[1] = SessionB
  /\ sessions[2].metrics = <<Sample1>>
  /\ sessions[2].transcript = "he"
  /\ sessions = stored

\* the values of data.type the handler has a branch for
KnownTypes == {"connected", "partial", "final", "model_switched", "error"}

\* C17: a parsed inbound message whose type is none of connected, partial,
\* final, model_switched, error changes neither the transcript, the metrics
\* history, the current model, the status nor the state of any connection.
C17_UnknownTypeIgnored ==
  [][ ( /\ MessageStep
        /\ lastOp'.data.type # "#malformed"
        /\ lastOp'.data.type \notin KnownTypes )
      => UNCHANGED <<transcript, metricsHistoryRef, metrics, currentModel,
                     status, conn, wsRef, isRecording>> ]_vars

\* a message of type ping was just delivered to a recording that holds a
\* segment and a sample and shows the status of its open connection
C17_Witness ==
  /\ lastOp.op = "onmessage"
  /\ lastOp.data.type = "ping"
  /\ Len(transcript) = 1
  /\ Len(metricsHistoryRef) = 1
  /\ status = "Connected"

\* C18: in every state in which switchModel has just sent its request, no
\* connection is connecting or open.
C18_SwitchOnlyWhileNoSessionOpen ==
  lastOp.op = "switchModel"
    => \A k \in Starts : conn[k] \notin {"CONNECTING", "OPEN"}

\* C19: the status reads Connected only while the connection the page
\* references is open, and while that connection is open the status is not
\* the Disconnected that the close of another connection wrote.
C19_StatusOfCurrentConnection ==
  /\ status = "Connected" => wsIsOpen(wsRef, conn)
  /\ wsIsOpen(wsRef, conn) => status # "Disconnected"

C21_ErrorEventOnlySetsStatus ==
  [][ (MessageStep /\ lastOp'.data.type = "error")
      => /\ status' = "Error: " \o lastOp'.data.message
         /\ conn'[lastOp'.k] = "OPEN"
         /\ UNCHANGED <<conn, wsRef, sent, transcript, metricsHistoryRef,
                        metrics, currentModel, isRecording>> ]_vars

\* an error event arrived on the connection of the recording, and the final
\* event that came after it was processed: its segment and its sample are
\* there while the status still shows the error
C21_Witness ==
  /\ status = "Error: boom"
  /\ lastOp.op = "onmessage"
  /\ lastOp.data.type = "final"
  /\ nMsgs = 2
  /\ isRecording
  /\ wsIsOpen(wsRef, conn)
  /\ Len(transcript) = 1
  /\ metricsHistoryRef = <<Sample1>>

\* everything the page and its handlers read or write, the history
\* variables lastOp and nMsgs left out
programState ==
  <<isRecording, transcript, currentModel, metrics, status, wsRef,
    audioContextRef, workletNodeRef, streamRef, sessionStartRef,
    metricsHistoryRef, storage, startPc, conn, ctx, node, stream, sent, now,
    switchReqs, cvVars>>

\* C22: an inbound payload that does not parse changes nothing: not the
\* transcript, the metrics history, the model or a connection, nor any other
\* state a later handler reads, so what comes after it is processed as if it
\* had not arrived.
C22_MalformedMessageDropped ==
  [][ (MessageStep /\ lastOp'.data.type = "#malformed")
      => UNCHANGED programState ]_vars

\* a payload that does not parse has just arrived on the open connection of
\* a recording that holds a segment and a sample
C22_Witness ==
  /\ lastOp.op = "onmessage"
  /\ lastOp.data.type = "#malformed"
  /\ isRecording
  /\ wsIsOpen(wsRef, conn)
  /\ Len(transcript) = 1
  /\ metricsHistoryRef = <<Sample1>>

\* the step is the end of the k-th startRecording call in the catch block of
\* initializeAudio
initFailedStep(k) ==
  /\ lastOp'.op \in {"getUserMedia", "addModule"}
  /\ lastOp'.k = k
  /\ lastOp'.log = <<"catch">>

\* C23: a startRecording call whose audio initialization fails ends there:
\* the status reports the failure, that call has created no connection and
\* never creates one, and it changes neither the recording flag, the
\* transcript, the metrics history nor anything sent.
C23_FailedInitAbortsStart ==
  [][ \A k \in Starts :
        /\ initFailedStep(k)
           => /\ status' = "Audio initialization failed"
              /\ startPc'[k] = "done"
              /\ conn'[k] = "none"
              /\ sent'[k] = <<>>
              /\ UNCHANGED <<conn, wsRef, sent, isRecording, transcript,
                             metricsHistoryRef>>
        /\ startPc[k] = "done"
           => /\ startPc'[k] = "done"
              /\ conn[k] = "none" => conn'[k] = "none" ]_vars

\* the worklet setup of the second start has just failed: the page is not
\* recording, no connection was created for that start, and the segment and
\* the sample of the recording before it are still there
C23_Witness ==
  /\ lastOp.op = "addModule"
  /\ lastOp.k = 2
  /\ lastOp.log = <<"catch">>
  /\ status = "Audio initialization failed"
  /\ ~isRecording
  /\ conn[2] = "none"
  /\ Len(transcript) = 1
  /\ metricsHistoryRef = <<Sample1>>

\* C24: resetTranscript sends the reset message on the connection the page
\* references exactly when that connection is OPEN at the call, and changes
\* no state of the page but the transcript.
C24_ResetSendsOnlyWhenOpen ==
  [][ lastOp'.op = "resetTranscript"
      => /\ IF wsRef # 0 /\ conn[wsRef] = "OPEN"
              THEN /\ sent'[wsRef] = Append(sent[wsRef], ResetMsg)
                   /\ \A k \in Starts : k # wsRef => sent'[k] = sent[k]
              ELSE sent' = sent
         /\ UNCHANGED <<conn, wsRef, isRecording, currentModel, metrics,
                        metricsHistoryRef, status, storage>> ]_vars

\* a reset was just sent on the open connection of a recording that had a
\* segment and keeps its sample
C24_Witness ==
  /\ lastOp.op = "resetTranscript"
  /\ lastOp.pre = 1
  /\ wsIsOpen(wsRef, conn)
  /\ sent[wsRef] = <<ResetMsg>>
  /\ transcript = <<>>
  /\ metricsHistoryRef = <<Sample1>>

\* the connections that are connecting or open
liveConnections == {k \in Starts : conn[k] \in {"CONNECTING", "OPEN"}}

\* C25: every connection that is connecting or open is the one the page
\* references, so at most one is live, and after a stopRecording that ran to
\* its end no connection is connecting or open.
C25_OneLiveConnection ==
  /\ \A k \in liveConnections : wsRef = k
  /\ Cardinality(liveConnections) <= 1
  /\ lastOp.op = "stopRecording" => liveConnections = {}

\* C26: a frame handed over while the page references no connection, or one
\* that is not OPEN, changes nothing that is sent; and the audio messages of
\* a connection grow only by the frame being handed over, at the end, while
\* that connection is the referenced one and OPEN.
C26_FramesDroppedUnlessOpen ==
  [][ /\ (lastOp'.op = "port.onmessage" /\ ~(wsRef # 0 /\ conn[wsRef] = "OPEN"))
         => sent' = sent
      /\ \A k \in Starts :
           audioSent(k)' # audioSent(k)
             => /\ lastOp'.op = "port.onmessage"
                /\ wsRef = k
                /\ conn[k] = "OPEN"
                /\ Len(handed') = Len(handed) + 1
                /\ audioSent(k)' = Append(audioSent(k), Len(handed')) ]_vars

\* frame 1 was handed over while the connection was still connecting and
\* frame 2 after it opened: only frame 2 was sent
C26_Witness ==
  /\ Len(handed) = 2
  /\ handed[1].rs = "CONNECTING"
  /\ handed[2].rs = "OPEN"
  /\ handed[1].ws = handed[2].ws
  /\ audioSent(handed[2].ws) = <<2>>

\* C27: a partial or final event without text leaves the list of segments
\* as it is, and its metrics, if it carries any, become the one new last
\* element of the metrics history.
C27_EmptyTextKeepsSegments ==
  [][ ( /\ MessageStep
        /\ lastOp'.data.type \in {"partial", "final"}
        /\ lastOp'.data.text = "" )
      => /\ transcript' = transcript
         /\ IF lastOp'.data.metrics # <<>>
              THEN metricsHistoryRef' =
                     Append(metricsHistoryRef, lastOp'.data.metrics[1])
              ELSE metricsHistoryRef' = metricsHistoryRef ]_vars

\* a partial event without text but with metrics has just arrived while the
\* transcript ended with a partial segment: the segment is still there and
\* the sample is recorded
C27_Witness ==
  /\ lastOp.op = "onmessage"
  /\ lastOp.data.type = "partial"
  /\ lastOp.data.text = ""
  /\ Len(transcript) = 1
  /\ transcript[1].type = "partial"
  /\ metricsHistoryRef = <<Sample2>>

\* C28: whenever the metrics panel displays a sample, that sample is the last
\* element of the metrics history of the current recording; in particular no
\* sample is displayed while that history is still empty.
C28_PanelShowsCurrentSample ==
  metricsShown(isRecording, metrics) # <<>>
    => /\ metricsHistoryRef # <<>>
       /\ metricsShown(isRecording, metrics)[1]
            = metricsHistoryRef[Len(metricsHistoryRef)]

\* C29: while the comparison view is shown, the list of sessions it displays
\* equals the persisted list, and every selected index is an index of that
\* list.
C29_ViewEqualsPersisted ==
  showComparison
    => /\ sessions = stored
       /\ \A i \in 1..Len(selectedSessions) :
            selectedSessions[i] \in 0..(Len(stored) - 1)

\* C30: when a step of initializeAudio has just failed (startRecording
\* returns without recording), the media stream that start acquired is not
\* live and the audio context it created is not running.
C30_FailedStartHoldsNothing ==
  ( /\ lastOp.op \in {"getUserMedia", "addModule"}
    /\ lastOp.log = <<"catch">> )
    => /\ stream[lastOp.k] # "live"
       /\ ctx[lastOp.k] # "running"

====
